---- MODULE Spec2Model ----
(***************************************************************************)
(* Model of src/public/server.js: the POST /api/scan handler, the two      *)
(* upstream clients queryTalos / queryFortiGuard and the keyword           *)
(* classifier classifyFromEngines.                                         *)
(*                                                                         *)
(* JavaScript values are tagged records:                                   *)
(*   [t |-> "undef"]            undefined (a missing key, an unset env var) *)
(*   [t |-> "null"]             null                                       *)
(*   [t |-> "str", v |-> "..."] a string                                   *)
(*   [t |-> "num", v |-> n]     a number                                   *)
(*   [t |-> "arr", v |-> <<>>]  an array                                   *)
(*   [t |-> "obj", ...]         an object (a parsed body, a fragment)      *)
(* A call's completion is [kind |-> "return" | "throw", value |-> ...].    *)
(***************************************************************************)
EXTENDS Integers, Sequences, FiniteSets, TLC

\* ---------------------------------------------------------------- bounds

\* Longest urls array of a request.
MaxUrls == 2

\* Most words in the category texts of one classifier input (all fields).
MaxWords == 2

\* ------------------------------------------------------------ JS values

Undef == [t |-> "undef"]

Null == [t |-> "null"]

Str(s) == [t |-> "str", v |-> s]

Num(n) == [t |-> "num", v |-> n]

Arr(q) == [t |-> "arr", v |-> q]

IsStr(x) == x.t = "str"

IsNum(x) == x.t = "num"

\* JavaScript truthiness: undefined, null, "" and 0 are falsy.
Truthy(x) ==
    CASE x.t = "undef" -> FALSE
      [] x.t = "null" -> FALSE
      [] x.t = "str" -> x.v # ""
      [] x.t = "num" -> x.v # 0
      [] OTHER -> TRUE

\* a || b
Or(a, b) == IF Truthy(a) THEN a ELSE b

Return(v) == [kind |-> "return", value |-> v]

Throw == [kind |-> "throw", value |-> Undef]

\* ---------------------------------------------------------- JS strings

UpperChars == "ABCDEFGHIJKLMNOPQRSTUVWXYZ"

LowerChars == "abcdefghijklmnopqrstuvwxyz"

\* Each upper-case letter's lower-case letter.
LowerOf ==
    [c \in {SubSeq(UpperChars, k, k) : k \in 1..Len(UpperChars)} |->
        LET k == CHOOSE k \in 1..Len(UpperChars) : SubSeq(UpperChars, k, k) = c
        IN  SubSeq(LowerChars, k, k)]

LowerChar(c) == IF c \in DOMAIN LowerOf THEN LowerOf[c] ELSE c

RECURSIVE toLowerCase(_)
\* String.prototype.toLowerCase
toLowerCase(s) ==
    IF s = "" THEN ""
    ELSE LowerChar(SubSeq(s, 1, 1)) \o toLowerCase(SubSeq(s, 2, Len(s)))

\* String.prototype.includes
includes(s, sub) ==
    \E k \in 0..(Len(s) - Len(sub)) : SubSeq(s, k + 1, k + Len(sub)) = sub

Digits == "0123456789"

RECURSIVE NatToString(_)
NatToString(n) ==
    IF n < 10 THEN SubSeq(Digits, n + 1, n + 1)
    ELSE NatToString(n \div 10) \o SubSeq(Digits, (n % 10) + 1, (n % 10) + 1)

\* String(x) for the values a parsed JSON field holds here.
String(x) ==
    CASE x.t = "str" -> x.v
      [] x.t = "num" -> IF x.v < 0 THEN "-" \o NatToString(-x.v) ELSE NatToString(x.v)
      [] x.t = "null" -> "null"
      [] OTHER -> "undefined"

RECURSIVE join(_, _)
\* Array.prototype.join
join(q, sep) ==
    IF q = <<>> THEN ""
    ELSE IF Len(q) = 1 THEN q[1]
    ELSE q[1] \o sep \o join(Tail(q), sep)

\* ---------------------------------------------------------- classifier

blockedSignals ==
    <<"adult", "porn", "sex", "nsfw", "gore", "violence",
      "malware", "phishing", "botnet", "spam", "hacking">>

reviewSignals ==
    <<"games", "game", "social", "social networking", "chat",
      "streaming", "video", "entertainment", "proxy", "vpn">>

goodSignals ==
    <<"education", "educational", "reference", "academic",
      "business", "productivity", "search engines">>

\* signals.some(s => catString.includes(s))
some(signals, catString) ==
    \E k \in 1..Len(signals) : includes(catString, signals[k])

\* Variant: the field texts joined by a single space.
SpaceSeparator == " "

\* The separator of categories.join(" | ").
CategorySeparator == " | "

\* The categories array: each truthy field, stringified and lowercased, in
\* the order talos.category, forti.category, forti.threat.
categoriesOf(talos, forti) ==
    (IF Truthy(talos) /\ Truthy(talos.category)
     THEN <<toLowerCase(String(talos.category))>> ELSE <<>>)
    \o (IF Truthy(forti) /\ Truthy(forti.category)
        THEN <<toLowerCase(String(forti.category))>> ELSE <<>>)
    \o (IF Truthy(forti) /\ Truthy(forti.threat)
        THEN <<toLowerCase(String(forti.threat))>> ELSE <<>>)

catStringOf(talos, forti) == join(categoriesOf(talos, forti), CategorySeparator)

\* The three fields each branch sets. The source writes "high-risk" and
\* "proxy-like" with U+2011 hyphens; the module keeps to ASCII.
UnknownVerdict ==
    [status |-> "unknown", label |-> "Unsure",
     reason |-> "No strong policy signals from Talos/FortiGuard categories."]

BlockedVerdict ==
    [status |-> "blocked", label |-> "Blocked",
     reason |-> "Talos/FortiGuard category indicates adult, gore, malware, or similar high-risk content."]

ReviewVerdict ==
    [status |-> "review", label |-> "Needs review",
     reason |-> "Talos/FortiGuard category indicates games, social, streaming, or proxy-like content."]

GoodVerdict ==
    [status |-> "good", label |-> "Good",
     reason |-> "Talos/FortiGuard category indicates educational, reference, or productivity content."]

ScoreVerdict ==
    [status |-> "blocked", label |-> "Blocked",
     reason |-> "Cisco Talos reputation score is negative (high risk)."]

\* Variant: the chain with hasReview tested before hasBlocked.
ReviewFirstVerdict(catString) ==
    IF some(reviewSignals, catString) THEN ReviewVerdict
    ELSE IF some(blockedSignals, catString) THEN BlockedVerdict
    ELSE IF some(goodSignals, catString) THEN GoodVerdict
    ELSE UnknownVerdict

\* The if / else-if chain over hasBlocked, hasReview, hasGood.
keywordVerdict(catString) ==
    IF some(blockedSignals, catString) THEN BlockedVerdict
    ELSE IF some(reviewSignals, catString) THEN ReviewVerdict
    ELSE IF some(goodSignals, catString) THEN GoodVerdict
    ELSE UnknownVerdict

\* Variant: the override without the typeof test, so that a numeric string
\* such as "-5" compares below 0 as well.
UncheckedTypeOverride(talos) ==
    /\ Truthy(talos)
    /\ talos.score.t \in {"num", "str"}
    /\ IF IsNum(talos.score) THEN talos.score.v < 0
       ELSE Len(talos.score.v) > 1 /\ SubSeq(talos.score.v, 1, 1) = "-"

\* talos && typeof talos.score === "number" && talos.score < 0
scoreOverride(talos) ==
    /\ Truthy(talos)
    /\ IsNum(talos.score)
    /\ talos.score.v < 0

\* classifyFromEngines(url, talos, forti): url.toLowerCase() raises a
\* TypeError when url is not a string.
classifyFromEngines(url, talos, forti) ==
    IF ~IsStr(url) THEN Throw
    ELSE LET lowerUrl == toLowerCase(url.v)
             verdict == keywordVerdict(catStringOf(talos, forti))
         IN  Return(IF scoreOverride(talos) THEN ScoreVerdict ELSE verdict)

\* ------------------------------------------------------ upstream clients

VARIABLES
    talosEnv,   \* process.env.TALOS_API_URL
    fortiEnv,   \* process.env.FORTIGUARD_API_URL
    reqUrls,    \* req.body.urls of the request being served
    pc,         \* the handler's position: start, loop, await, done, off
    i,          \* 1-based position of the for-of loop in urls
    results,    \* the handler's results array
    response,   \* what the handler sent: [status, body], status 0 before
    talosQ,     \* per position, the queryTalos call: [pc, result]
    fortiQ,     \* per position, the queryFortiGuard call: [pc, result]
    calls,      \* number of invocations of each client
    fetches,    \* number of fetch() calls issued by each client
    upstream,   \* what the upstream last did to each client's call: none,
                \* reject, notok, ok (after fetch), badjson, parsed (after json)
    cIn,        \* classifyFromEngines called on its own: its arguments
    cOut        \* classifyFromEngines called on its own: its completion

vars ==
    <<talosEnv, fortiEnv, reqUrls, pc, i, results, response,
      talosQ, fortiQ, calls, fetches, upstream, cIn, cOut>>

TalosPlaceholder == Str("https://<your-talos-endpoint>")

FortiGuardPlaceholder == Str("https://<your-fortiguard-endpoint>")

\* process.env.TALOS_API_URL || "https://<your-talos-endpoint>"
TALOS_API_URL == Or(talosEnv, TalosPlaceholder)

\* process.env.FORTIGUARD_API_URL || "https://<your-fortiguard-endpoint>"
FORTIGUARD_API_URL == Or(fortiEnv, FortiGuardPlaceholder)

Pending == [kind |-> "pending", value |-> Undef]

\* A client call: where it stands (none, fetch, json, settled) and its
\* completion.
NotCalled == [pc |-> "none", result |-> Pending]

Fetching == [pc |-> "fetch", result |-> Pending]

Parsing == [pc |-> "json", result |-> Pending]

Settled(r) == [pc |-> "settled", result |-> r]

InFlight(q) == q.pc \in {"fetch", "json"}

\* The normalized structure built from a parsed Talos body; reading a
\* property of a null body raises a TypeError.
talosFragment(data) ==
    IF data.t = "null" THEN Throw
    ELSE Return([t |-> "obj",
                 category |-> Or(Or(data.category, data.threat_category), Null),
                 score |-> Or(Or(data.score, data.reputation_score), Null),
                 raw |-> data])

\* The same for a parsed FortiGuard body.
fortiFragment(data) ==
    IF data.t = "null" THEN Throw
    ELSE Return([t |-> "obj",
                 category |-> Or(Or(data.category, data.webfilter_category), Null),
                 threat |-> Or(Or(data.threat, data.threat_level), Null),
                 raw |-> data])

\* Variant: a catch block that lets the error through.
Rethrow(r) == r

\* queryTalos's try { ... } catch (err) { console.error(...); return null; }
talosCatch(r) == IF r.kind = "throw" THEN Return(Null) ELSE r

\* queryFortiGuard's try / catch.
fortiCatch(r) == IF r.kind = "throw" THEN Return(Null) ELSE r

\* queryTalos up to its first await: the endpoint guard, then fetch().
queryTalosStart ==
    IF ~Truthy(TALOS_API_URL) THEN Settled(Return(Null)) ELSE Fetching

\* queryFortiGuard up to its first await.
queryFortiGuardStart ==
    IF ~Truthy(FORTIGUARD_API_URL) THEN Settled(Return(Null)) ELSE Fetching

\* What await fetch(...) can do: reject, or resolve with res.ok false / true.
FetchOutcomes == {"reject", "notok", "ok"}

\* queryTalos resumed after await fetch(...).
queryTalosAfterFetch(outcome) ==
    CASE outcome = "reject" -> Settled(talosCatch(Throw))
      [] outcome = "notok" -> Settled(talosCatch(Return(Null)))
      [] OTHER -> Parsing

\* queryFortiGuard resumed after await fetch(...).
queryFortiGuardAfterFetch(outcome) ==
    CASE outcome = "reject" -> Settled(fortiCatch(Throw))
      [] outcome = "notok" -> Settled(fortiCatch(Return(Null)))
      [] OTHER -> Parsing

\* What await res.json() can do: reject (the body does not parse), or
\* resolve with the parsed body.
Rejected == [t |-> "rejected"]

\* queryTalos resumed after await res.json().
queryTalosAfterJson(parsed) ==
    IF parsed = Rejected THEN Settled(talosCatch(Throw))
    ELSE Settled(talosCatch(talosFragment(parsed)))

\* queryFortiGuard resumed after await res.json().
queryFortiGuardAfterJson(parsed) ==
    IF parsed = Rejected THEN Settled(fortiCatch(Throw))
    ELSE Settled(fortiCatch(fortiFragment(parsed)))

TalosBody(c, tc, s, rs) ==
    [t |-> "obj", category |-> c, threat_category |-> tc,
     score |-> s, reputation_score |-> rs]

FortiBody(c, wc, th, tl) ==
    [t |-> "obj", category |-> c, webfilter_category |-> wc,
     threat |-> th, threat_level |-> tl]

\* Response bodies the Talos endpoint returns in the handler's runs.
TalosBodies ==
    { Null,
      TalosBody(Str("Malware"), Undef, Num(0), Num(-5)),
      TalosBody(Str(""), Str("Education"), Num(10), Undef) }

\* Response bodies the FortiGuard endpoint returns in the handler's runs.
FortiBodies ==
    { Null,
      FortiBody(Undef, Str("Online Games"), Str(""), Num(-1)) }

\* ------------------------------------------------------------- handler

\* const urls = Array.isArray(req.body.urls) ? req.body.urls : [];
urlsOf(body) == IF body.t = "arr" THEN body.v ELSE <<>>

urls == urlsOf(reqUrls)

NoResponse == [status |-> 0, body |-> Undef]

\* res.status(400).json({ error: "No URLs provided.", results: [] })
BadRequest == [status |-> 400, body |-> [error |-> "No URLs provided.", results |-> <<>>]]

\* res.json({ results })
Ok(rs) == [status |-> 200, body |-> [results |-> rs]]

\* The entry pushed in the try block.
Entry(url, verdict, talos, fortiguard) ==
    [url |-> url, status |-> verdict.status, label |-> verdict.label,
     reason |-> verdict.reason, talos |-> talos, fortiguard |-> fortiguard]

\* Variant: a fallback entry with a status of its own.
ErrorStatusEntry(url) ==
    [url |-> url, status |-> "error", label |-> "Unsure",
     reason |-> "Error querying Talos/FortiGuard.",
     talos |-> Null, fortiguard |-> Null]

\* The entry pushed in the catch block.
FallbackEntry(url) ==
    [url |-> url, status |-> "unknown", label |-> "Unsure",
     reason |-> "Error querying Talos/FortiGuard.",
     talos |-> Null, fortiguard |-> Null]

\* Variant: results.unshift(e), the new entry put first.
unshift(rs, e) == <<e>> \o rs

\* results.push(e)
push(rs, e) == Append(rs, e)

\* Promise.all([queryTalos(url), queryFortiGuard(url)]): rejected as soon as
\* one call has raised, fulfilled once both have returned.
PromiseAll(tq, fq) ==
    IF tq.result.kind = "throw" \/ fq.result.kind = "throw" THEN Throw
    ELSE IF tq.result.kind = "return" /\ fq.result.kind = "return"
         THEN Return(<<tq.result.value, fq.result.value>>)
         ELSE Pending

\* The body of the for loop after the await: try { classify, push } catch
\* { push the fallback }.
scanEntry(url, all) ==
    IF all.kind = "throw" THEN FallbackEntry(url)
    ELSE LET verdict == classifyFromEngines(url, all.value[1], all.value[2])
         IN  IF verdict.kind = "throw" THEN FallbackEntry(url)
             ELSE Entry(url, verdict.value, all.value[1], all.value[2])

\* What process.env holds for an endpoint variable.
EnvValues == {Undef, Str(""), Str("https://reputation.example/api")}

\* Elements of a urls array: strings, and a non-string JSON value.
UrlValues == {Str("http://A.example/"), Num(7)}

UrlArrays == UNION {[1..n -> UrlValues] : n \in 0..MaxUrls}

\* What req.body.urls can be: missing, not an array, an array.
ReqUrlsValues == {Undef, Str("http://A.example/")} \cup {Arr(q) : q \in UrlArrays}

NoInput == [url |-> Undef, talos |-> Null, forti |-> Null]

Init ==
    /\ talosEnv \in EnvValues
    /\ fortiEnv \in EnvValues
    /\ reqUrls \in ReqUrlsValues
    /\ pc = "start"
    /\ i = 0
    /\ results = <<>>
    /\ response = NoResponse
    /\ talosQ = [k \in 1..Len(urls) |-> NotCalled]
    /\ fortiQ = [k \in 1..Len(urls) |-> NotCalled]
    /\ calls = [talos |-> 0, forti |-> 0]
    /\ fetches = [talos |-> 0, forti |-> 0]
    /\ upstream = [talos |-> "none", forti |-> "none"]
    /\ cIn = NoInput
    /\ cOut = Pending

\* Variant: if (!urls), which an empty array never satisfies.
EmptyArrayIsTruthy == FALSE

\* if (!urls.length)
rejectsBatch == Len(urls) = 0

\* The handler's entry: validation, then either the 400 response or the
\* start of the loop.
Receive ==
    /\ pc = "start"
    /\ IF rejectsBatch
       THEN /\ response' = BadRequest
            /\ pc' = "done"
            /\ UNCHANGED i
       ELSE /\ pc' = "loop"
            /\ i' = 1
            /\ UNCHANGED response
    /\ results' = <<>>
    /\ UNCHANGED <<talosEnv, fortiEnv, reqUrls, talosQ, fortiQ, calls, fetches, upstream, cIn, cOut>>

Count(q) == IF q.pc = "fetch" THEN 1 ELSE 0

\* One iteration's synchronous part: both clients are called, each runs to
\* its first await, and the handler awaits Promise.all.
IssueQueries ==
    /\ pc = "loop"
    /\ i <= Len(urls)
    /\ talosQ' = [talosQ EXCEPT ![i] = queryTalosStart]
    /\ fortiQ' = [fortiQ EXCEPT ![i] = queryFortiGuardStart]
    /\ calls' = [talos |-> calls.talos + 1, forti |-> calls.forti + 1]
    /\ fetches' = [talos |-> fetches.talos + Count(queryTalosStart),
                   forti |-> fetches.forti + Count(queryFortiGuardStart)]
    /\ upstream' = [talos |-> "none", forti |-> "none"]
    /\ pc' = "await"
    /\ UNCHANGED <<talosEnv, fortiEnv, reqUrls, i, results, response, cIn, cOut>>

TalosFetchSettles ==
    \E k \in 1..Len(urls), outcome \in FetchOutcomes :
        /\ talosQ[k].pc = "fetch"
        /\ talosQ' = [talosQ EXCEPT ![k] = queryTalosAfterFetch(outcome)]
        /\ upstream' = [upstream EXCEPT !.talos = outcome]
        /\ UNCHANGED <<talosEnv, fortiEnv, reqUrls, pc, i, results, response,
                       fortiQ, calls, fetches, cIn, cOut>>

TalosJsonSettles ==
    \E k \in 1..Len(urls), parsed \in TalosBodies \cup {Rejected} :
        /\ talosQ[k].pc = "json"
        /\ talosQ' = [talosQ EXCEPT ![k] = queryTalosAfterJson(parsed)]
        /\ upstream' = [upstream EXCEPT !.talos = IF parsed = Rejected THEN "badjson" ELSE "parsed"]
        /\ UNCHANGED <<talosEnv, fortiEnv, reqUrls, pc, i, results, response,
                       fortiQ, calls, fetches, cIn, cOut>>

FortiFetchSettles ==
    \E k \in 1..Len(urls), outcome \in FetchOutcomes :
        /\ fortiQ[k].pc = "fetch"
        /\ fortiQ' = [fortiQ EXCEPT ![k] = queryFortiGuardAfterFetch(outcome)]
        /\ upstream' = [upstream EXCEPT !.forti = outcome]
        /\ UNCHANGED <<talosEnv, fortiEnv, reqUrls, pc, i, results, response,
                       talosQ, calls, fetches, cIn, cOut>>

FortiJsonSettles ==
    \E k \in 1..Len(urls), parsed \in FortiBodies \cup {Rejected} :
        /\ fortiQ[k].pc = "json"
        /\ fortiQ' = [fortiQ EXCEPT ![k] = queryFortiGuardAfterJson(parsed)]
        /\ upstream' = [upstream EXCEPT !.forti = IF parsed = Rejected THEN "badjson" ELSE "parsed"]
        /\ UNCHANGED <<talosEnv, fortiEnv, reqUrls, pc, i, results, response,
                       talosQ, calls, fetches, cIn, cOut>>

\* Variant: Promise.race-like waiting, resumed by the first call to
\* complete with what has been returned so far.
Race(tq, fq) ==
    IF tq.result.kind = "pending" /\ fq.result.kind = "pending" THEN Pending
    ELSE Return(<<IF tq.result.kind = "return" THEN tq.result.value ELSE Null,
                  IF fq.result.kind = "return" THEN fq.result.value ELSE Null>>)

\* const [talos, fortiguard] = await Promise.all([...])
awaited(tq, fq) == PromiseAll(tq, fq)

\* The handler resumed after the await: the entry for position i is pushed
\* and the loop moves on.
Join ==
    /\ pc = "await"
    /\ awaited(talosQ[i], fortiQ[i]).kind # "pending"
    /\ results' = push(results, scanEntry(urls[i], awaited(talosQ[i], fortiQ[i])))
    /\ i' = i + 1
    /\ pc' = "loop"
    /\ UNCHANGED <<talosEnv, fortiEnv, reqUrls, response, talosQ, fortiQ,
                   calls, fetches, upstream, cIn, cOut>>

\* After the loop: res.json({ results }).
Respond ==
    /\ pc = "loop"
    /\ i > Len(urls)
    /\ response' = Ok(results)
    /\ pc' = "done"
    /\ UNCHANGED <<talosEnv, fortiEnv, reqUrls, i, results, talosQ, fortiQ,
                   calls, fetches, upstream, cIn, cOut>>

Next ==
    \/ Receive
    \/ IssueQueries
    \/ TalosFetchSettles
    \/ TalosJsonSettles
    \/ FortiFetchSettles
    \/ FortiJsonSettles
    \/ Join
    \/ Respond

Spec == Init /\ [][Next]_vars

\* ------------------------------------------- the classifier on its own

\* Words of upstream category texts: with and without signals, in mixed case.
Words == {"Adult", "Education", "Games", "social", "networking", "search", "engines"}

\* The texts of exactly m words, joined by single spaces.
Texts(m) == {join(ws, " ") : ws \in [1..m -> Words]}

\* By word count, what a body's text field can hold; a field of no words is
\* missing or the empty string.
TextFields ==
    [m \in 0..MaxWords |->
        {Str(x) : x \in Texts(m)} \cup (IF m = 0 THEN {Undef} ELSE {})]

\* FortiGuard's threat field may also hold a number.
ThreatFields ==
    [m \in 0..MaxWords |-> TextFields[m] \cup (IF m = 0 THEN {Num(-1)} ELSE {})]

\* How MaxWords words or fewer spread over the three fields.
WordCounts ==
    {n \in (0..MaxWords) \X (0..MaxWords) \X (0..MaxWords) : n[1] + n[2] + n[3] <= MaxWords}

\* <<score, reputation_score>> of a Talos body.
ScoreCases ==
    { <<Undef, Undef>>, <<Num(0), Undef>>, <<Num(0), Num(-5)>>,
      <<Num(-1), Undef>>, <<Num(5), Undef>>, <<Str("-5"), Undef>> }

\* The fragments the clients hand to the classifier: null, or the
\* normalized structure of a parsed body.
TalosFragments(c) ==
    {Null} \cup {talosFragment(TalosBody(c, Undef, sc[1], sc[2])).value : sc \in ScoreCases}

FortiFragments(c, th) == {Null, fortiFragment(FortiBody(c, Undef, th, Undef)).value}

\* The classifier's arguments: a URL string and the two fragments, their
\* category texts holding MaxWords words or fewer in all.
InitClassify ==
    /\ \E n \in WordCounts :
         \E c \in TextFields[n[1]], fc \in TextFields[n[2]], th \in ThreatFields[n[3]] :
            \E tf \in TalosFragments(c), ff \in FortiFragments(fc, th) :
               cIn = [url |-> Str("http://A.example/"), talos |-> tf, forti |-> ff]
    /\ cOut = Pending
    /\ talosEnv = Undef
    /\ fortiEnv = Undef
    /\ reqUrls = Undef
    /\ pc = "off"
    /\ i = 0
    /\ results = <<>>
    /\ response = NoResponse
    /\ talosQ = <<>>
    /\ fortiQ = <<>>
    /\ calls = [talos |-> 0, forti |-> 0]
    /\ fetches = [talos |-> 0, forti |-> 0]
    /\ upstream = [talos |-> "none", forti |-> "none"]

\* const verdict = classifyFromEngines(url, talos, fortiguard)
Classify ==
    /\ cOut = Pending
    /\ cIn # NoInput
    /\ cOut' = classifyFromEngines(cIn.url, cIn.talos, cIn.forti)
    /\ UNCHANGED <<talosEnv, fortiEnv, reqUrls, pc, i, results, response,
                   talosQ, fortiQ, calls, fetches, upstream, cIn>>

NextClassify == Classify

SpecClassify == InitClassify /\ [][NextClassify]_vars

\* -------------------------------------------------------------- claims

Positions == 1..Len(reqUrls.v)

Accepted == reqUrls.t = "arr" /\ Len(reqUrls.v) > 0

\* C1: for an accepted batch of N URLs the results list always holds the
\* entries of the first Len(results) input positions, in input order, the
\* response carries exactly N entries with entry k's url equal to input
\* element k, and an entry once appended is never removed, reordered or
\* replaced.
C1_OrderPreserved ==
    /\ [](Accepted =>
            /\ Len(results) <= Len(reqUrls.v)
            /\ \A k \in 1..Len(results) : results[k].url = reqUrls.v[k]
            /\ (response.status # 0 =>
                  /\ response.status = 200
                  /\ Len(response.body.results) = Len(reqUrls.v)
                  /\ \A k \in Positions : response.body.results[k].url = reqUrls.v[k]))
    /\ [][/\ Len(results') >= Len(results)
          /\ SubSeq(results', 1, Len(results)) = results]_vars

\* A batch with a repeated URL was answered in full, the two occurrences
\* having received different entries.
C1_Witness ==
    /\ Accepted
    /\ response.status = 200
    /\ Len(reqUrls.v) = 2
    /\ reqUrls.v[1] = reqUrls.v[2]
    /\ IsStr(reqUrls.v[1])
    /\ results[1] # results[2]

\* Whether processing position k raised: one of the two calls, or the
\* classifier on what they returned.
Raised(k) ==
    \/ talosQ[k].result.kind = "throw"
    \/ fortiQ[k].result.kind = "throw"
    \/ classifyFromEngines(reqUrls.v[k], talosQ[k].result.value,
                            fortiQ[k].result.value).kind = "throw"

\* C2: a position whose processing raised has exactly the fallback entry
\* (its url, unknown, Unsure, both fragments null); every other position's
\* entry is the classification of its own url and fragments, whatever
\* happened at the positions before it; and the response is the full list.
C2_Isolation ==
    Accepted =>
        /\ \A k \in 1..Len(results) :
              IF Raised(k)
              THEN /\ results[k].url = reqUrls.v[k]
                   /\ results[k].status = "unknown"
                   /\ results[k].label = "Unsure"
                   /\ results[k].talos = Null
                   /\ results[k].fortiguard = Null
              ELSE /\ results[k].url = reqUrls.v[k]
                   /\ results[k].talos = talosQ[k].result.value
                   /\ results[k].fortiguard = fortiQ[k].result.value
                   /\ [status |-> results[k].status, label |-> results[k].label,
                       reason |-> results[k].reason]
                        = classifyFromEngines(reqUrls.v[k], talosQ[k].result.value,
                                              fortiQ[k].result.value).value
        /\ (pc = "done" => /\ Len(results) = Len(reqUrls.v)
                           /\ response = Ok(results))

\* The first of two positions raised, and the second still received a
\* classified (blocked) entry in the full response.
C2_Witness ==
    /\ Accepted
    /\ pc = "done"
    /\ Len(reqUrls.v) = 2
    /\ Raised(1)
    /\ ~Raised(2)
    /\ results[1].status = "unknown"
    /\ results[2].status = "blocked"
    /\ response.status = 200

\* C3: when req.body.urls is not a non-empty array, no client is ever
\* invoked and no fetch issued, and the only response is the 400 with an
\* empty results list.
C3_EmptyBatch ==
    ~Accepted =>
        /\ calls = [talos |-> 0, forti |-> 0]
        /\ fetches = [talos |-> 0, forti |-> 0]
        /\ results = <<>>
        /\ response.status \in {0, 400}
        /\ (pc = "done" => /\ response.status = 400
                           /\ response.body.results = <<>>)

\* A request whose urls value is a string, not an array, was answered 400.
C3_Witness ==
    /\ reqUrls.t = "str"
    /\ pc = "done"
    /\ response = BadRequest

\* C4: a client whose endpoint variable is unset or empty never issues a
\* fetch, and its calls return null without waiting.
C4_UnconfiguredNoFetch ==
    /\ (~Truthy(talosEnv) =>
          /\ fetches.talos = 0
          /\ \A k \in 1..Len(talosQ) : talosQ[k].pc \in {"none", "settled"})
    /\ (~Truthy(fortiEnv) =>
          /\ fetches.forti = 0
          /\ \A k \in 1..Len(fortiQ) : fortiQ[k].pc \in {"none", "settled"})

Failed(o) == o \in {"reject", "notok", "badjson"}

\* C5: a client call never completes by raising: it returns null or a
\* fragment object, and it returns null whenever the upstream rejected,
\* answered non-2xx or sent a body that does not parse.
C5_ClientsNeverRaise ==
    /\ \A k \in 1..Len(talosQ) :
          /\ talosQ[k].result.kind \in {"pending", "return"}
          /\ (talosQ[k].pc = "settled" => talosQ[k].result.value.t \in {"null", "obj"})
    /\ \A k \in 1..Len(fortiQ) :
          /\ fortiQ[k].result.kind \in {"pending", "return"}
          /\ (fortiQ[k].pc = "settled" => fortiQ[k].result.value.t \in {"null", "obj"})
    /\ (pc = "await" /\ Failed(upstream.talos) => talosQ[i].result = Return(Null))
    /\ (pc = "await" /\ Failed(upstream.forti) => fortiQ[i].result = Return(Null))

\* The Talos body did not parse, the FortiGuard body parsed to null, and
\* both calls returned null.
C5_Witness ==
    /\ pc = "await"
    /\ upstream = [talos |-> "badjson", forti |-> "parsed"]
    /\ talosQ[i].result = Return(Null)
    /\ fortiQ[i].result = Return(Null)

Present(x) == x.t \notin {"undef", "null"}

\* The first present (non-null) of a primary and a fallback value, else null.
FirstPresent(a, b) == IF Present(a) THEN a ELSE IF Present(b) THEN b ELSE Null

\* C8: each field of a returned fragment is the value under its primary key
\* when that is present, else the value under the fallback key when that is
\* present, else null.
C8_FirstNonNullWins ==
    /\ \A k \in 1..Len(talosQ) :
          talosQ[k].pc = "settled" /\ talosQ[k].result.value.t = "obj" =>
             LET f == talosQ[k].result.value
             IN  /\ f.category = FirstPresent(f.raw.category, f.raw.threat_category)
                 /\ f.score = FirstPresent(f.raw.score, f.raw.reputation_score)
    /\ \A k \in 1..Len(fortiQ) :
          fortiQ[k].pc = "settled" /\ fortiQ[k].result.value.t = "obj" =>
             LET f == fortiQ[k].result.value
             IN  /\ f.category = FirstPresent(f.raw.category, f.raw.webfilter_category)
                 /\ f.threat = FirstPresent(f.raw.threat, f.raw.threat_level)

Called(q) == q.pc # "none"

\* C10: the two calls of a position are issued together, and only once the
\* entries of all earlier positions are appended; a position's entry is
\* appended only when both its calls have completed; and calls of two
\* different positions are never in flight at the same time.
C10_OnePositionAtATime ==
    /\ \A k \in 1..Len(talosQ) :
          /\ Called(talosQ[k]) <=> Called(fortiQ[k])
          /\ (Called(talosQ[k]) => Len(results) >= k - 1)
          /\ (Len(results) >= k => talosQ[k].pc = "settled" /\ fortiQ[k].pc = "settled")
    /\ \A j, k \in 1..Len(talosQ) :
          (InFlight(talosQ[j]) \/ InFlight(fortiQ[j])) /\
          (InFlight(talosQ[k]) \/ InFlight(fortiQ[k])) => j = k

\* Position 2's Talos call has completed and the handler still waits for
\* its FortiGuard call, position 1's entry being appended.
C10_Witness ==
    /\ pc = "await"
    /\ i = 2
    /\ Len(results) = 1
    /\ talosQ[2].pc = "settled"
    /\ InFlight(fortiQ[2])

\* ------------------------------------------------- classifier's claims

Classified == cOut # Pending

\* fragmentA is non-null and its score is a number below 0.
NegativeScore == cIn.talos # Null /\ IsNum(cIn.talos.score) /\ cIn.talos.score.v < 0

SignalSet(signals) == {signals[k] : k \in 1..Len(signals)}

\* Whether the code's combined category text contains one of the signals.
TextHas(signals) ==
    LET text == catStringOf(cIn.talos, cIn.forti)
    IN  \E s \in SignalSet(signals) : includes(text, s)

PriorityStatus(b, r, g) ==
    IF b THEN "blocked" ELSE IF r THEN "review" ELSE IF g THEN "good" ELSE "unknown"

\* C6: without a negative Talos score the status is blocked when the
\* combined text contains a blocked-signal, else review for a review-signal,
\* else good for a good-signal, else unknown with label Unsure; two null
\* fragments give unknown / Unsure.
C6_KeywordPriority ==
    Classified /\ ~NegativeScore =>
        /\ cOut.kind = "return"
        /\ cOut.value.status =
              PriorityStatus(TextHas(blockedSignals), TextHas(reviewSignals),
                             TextHas(goodSignals))
        /\ (cOut.value.status = "unknown" => cOut.value.label = "Unsure")
        /\ (cIn.talos = Null /\ cIn.forti = Null =>
              cOut.value.status = "unknown" /\ cOut.value.label = "Unsure")

\* A text with a blocked-signal from one engine and a good-signal from the
\* other was classified blocked.
C6_Witness ==
    /\ Classified
    /\ ~NegativeScore
    /\ cIn.talos # Null
    /\ cIn.forti # Null
    /\ TextHas(blockedSignals)
    /\ TextHas(goodSignals)
    /\ cOut.value.status = "blocked"

FieldTexts ==
    {toLowerCase(String(x)) :
       x \in {y \in (IF cIn.talos # Null THEN {cIn.talos.category} ELSE {})
                     \cup (IF cIn.forti # Null
                           THEN {cIn.forti.category, cIn.forti.threat} ELSE {}) :
                Truthy(y)}}

RECURSIVE SpaceJoined(_)
SpaceJoined(q) ==
    IF q = <<>> THEN ""
    ELSE IF Len(q) = 1 THEN q[1] ELSE q[1] \o " " \o SpaceJoined(Tail(q))

\* Whether the single-space join of the field texts contains a signal.
SpaceTextHas(signals) ==
    LET text == SpaceJoined(categoriesOf(cIn.talos, cIn.forti))
    IN  \E s \in SignalSet(signals) : includes(text, s)

\* Whether one field's text, on its own, contains a signal.
FieldHas(signals) ==
    LET texts == FieldTexts
    IN  \E s \in SignalSet(signals) : \E x \in texts : includes(x, s)

\* C9 as stated: every signal is tested against the field texts joined by
\* one space, so a multi-word signal also matches across two adjacent
\* fields.
C9_SpaceJoinedText ==
    Classified /\ ~NegativeScore =>
        cOut.value.status =
            PriorityStatus(SpaceTextHas(blockedSignals), SpaceTextHas(reviewSignals),
                           SpaceTextHas(goodSignals))

\* C9 amended: the field texts are joined by " | ", so a signal matches
\* exactly when it occurs within one field's lowercased text; a multi-word
\* signal never matches across two fields.
C9_PerFieldText ==
    Classified /\ ~NegativeScore =>
        cOut.value.status =
            PriorityStatus(FieldHas(blockedSignals), FieldHas(reviewSignals),
                           FieldHas(goodSignals))

\* "search" and "engines" arrived in two adjacent fields and the verdict is
\* unknown, while "search engines" occurs in their single-space join.
C9_Witness ==
    /\ Classified
    /\ ~NegativeScore
    /\ SpaceTextHas(goodSignals)
    /\ ~FieldHas(goodSignals)
    /\ cOut.value.status = "unknown"

====
